---- MODULE Spec2Model ----
(***************************************************************************)
(* A state-machine model of br-exd-pitch.py, the pitchers-only             *)
(* Baseball-Reference scraper: main's loop over URLS (fetch, bio fields,   *)
(* 162-game-average row, ceiling rounding, delay) and the two CSV files    *)
(* written at the end.                                                     *)
(*                                                                         *)
(* Text is modelled as TLA+ strings, handled character by character.  Two  *)
(* non-ASCII characters the code names are written with ASCII stand-ins:   *)
(* NBSP for U+00A0 and ZWSP for U+200B.                                    *)
(*                                                                         *)
(* A fetched document is modelled by its parsed structure (what            *)
(* BeautifulSoup hands to the code): the h1 text, the #meta region, the    *)
(* tables of the live tree and the tables inside each comment.             *)
(***************************************************************************)
EXTENDS Integers, Sequences, FiniteSets, TLC

(***************************************************************************)
(* Python values                                                           *)
(***************************************************************************)

\* Python's None, for Optional[...] results: <<>> is None, <<x>> is x.
None == <<>>

Some(x) == <<x>>

\* Stand-in for U+00A0 (no-break space), which str.strip() and \s treat as
\* whitespace.
NBSP == "|"

\* Stand-in for U+200B (zero width space), which is not whitespace.
ZWSP == "~"

\* The characters str.isspace() accepts, among those the model uses.
Whitespace == {" ", "\t", "\n", NBSP}

\* The model's characters in code point order (for sorted()).
Alphabet == "\t\n %'()+,-./0123456789:ABCDEFGHIJKLMNOPQRSTUVWXYZ_abcdefghijklmnopqrstuvwxyz|~"

UpperCase == "ABCDEFGHIJKLMNOPQRSTUVWXYZ"

LowerCase == "abcdefghijklmnopqrstuvwxyz"

Digits == "0123456789"

Char(s, i) == SubSeq(s, i, i)

\* s.find(c) + 1: the 1-based position of the first c in s, 0 when there is
\* none.
IndexOf(s, c) ==
    IF \E i \in 1..Len(s) : Char(s, i) = c
    THEN CHOOSE i \in 1..Len(s) : Char(s, i) = c /\ \A j \in 1..(i - 1) : Char(s, j) # c
    ELSE 0

Ord(c) == IndexOf(Alphabet, c)

\* a < b for Python strings (lexicographic by code point).
RECURSIVE StrLess(_, _)
StrLess(a, b) ==
    IF b = "" THEN FALSE
    ELSE IF a = "" THEN TRUE
    ELSE IF Head(a) = Head(b) THEN StrLess(Tail(a), Tail(b))
    ELSE Ord(Head(a)) < Ord(Head(b))

LowerChar(c) ==
    LET i == IndexOf(UpperCase, c) IN IF i > 0 THEN Char(LowerCase, i) ELSE c

\* str.lower()
RECURSIVE Lower(_)
Lower(s) == IF s = "" THEN "" ELSE LowerChar(Head(s)) \o Lower(Tail(s))

\* str.replace(c, r) for a one-character c.
RECURSIVE Replace(_, _, _)
Replace(s, c, r) ==
    IF s = "" THEN ""
    ELSE (IF Head(s) = c THEN r ELSE Head(s)) \o Replace(Tail(s), c, r)

RECURSIVE LStrip(_)
LStrip(s) == IF s # "" /\ Head(s) \in Whitespace THEN LStrip(Tail(s)) ELSE s

RECURSIVE RStrip(_)
RStrip(s) ==
    IF s # "" /\ Char(s, Len(s)) \in Whitespace
    THEN RStrip(SubSeq(s, 1, Len(s) - 1)) ELSE s

\* str.strip()
Strip(s) == RStrip(LStrip(s))

\* sub in s
Contains(s, sub) ==
    \E i \in 1..(Len(s) - Len(sub) + 1) : SubSeq(s, i, i + Len(sub) - 1) = sub

\* re.sub(r'\s+', ' ', s)
RECURSIVE CollapseWhitespace(_)
CollapseWhitespace(s) ==
    IF s = "" THEN ""
    ELSE IF Head(s) \in Whitespace
         THEN " " \o CollapseWhitespace(LStrip(s))
         ELSE Head(s) \o CollapseWhitespace(Tail(s))

\* str.split(): the whitespace-separated words of s.
RECURSIVE Split(_)
Split(s) ==
    LET t == LStrip(s)
        n == IF \E i \in 1..Len(t) : Char(t, i) \in Whitespace
             THEN (CHOOSE i \in 1..Len(t) :
                      Char(t, i) \in Whitespace
                      /\ \A j \in 1..(i-1) : Char(t, j) \notin Whitespace) - 1
             ELSE Len(t)
    IN  IF t = "" THEN <<>>
        ELSE <<SubSeq(t, 1, n)>> \o Split(SubSeq(t, n + 1, Len(t)))

\* " ".join(parts)
RECURSIVE Join(_)
Join(parts) ==
    IF parts = <<>> THEN ""
    ELSE IF Len(parts) = 1 THEN parts[1]
    ELSE parts[1] \o " " \o Join(Tail(parts))

\* str(n) for an int.
RECURSIVE NatToStr(_)
NatToStr(n) ==
    IF n < 10 THEN Char(Digits, n + 1)
    ELSE NatToStr(n \div 10) \o Char(Digits, (n % 10) + 1)

IntToStr(n) == IF n < 0 THEN "-" \o NatToStr(-n) ELSE NatToStr(n)

IsDigits(s) == s # "" /\ \A i \in 1..Len(s) : IndexOf(Digits, Char(s, i)) > 0

\* int(s) for a string of digits.
RECURSIVE DigitsToNat(_)
DigitsToNat(s) ==
    IF s = "" THEN 0
    ELSE DigitsToNat(SubSeq(s, 1, Len(s) - 1)) * 10 + (IndexOf(Digits, Char(s, Len(s))) - 1)

\* re.match(r'^-?\d+(\.\d+)?$', s), for s without a trailing newline.
NumericMatch(s) ==
    LET u == IF s # "" /\ Head(s) = "-" THEN Tail(s) ELSE s
        d == IndexOf(u, ".")
    IN  IF d = 0 THEN IsDigits(u)
        ELSE IsDigits(SubSeq(u, 1, d - 1)) /\ IsDigits(SubSeq(u, d + 1, Len(u)))

\* str(math.ceil(float(s))) for s matching NumericMatch: toward +infinity.
\* Exact for the values a page carries (float's 53 bits are not modelled).
CeilStr(s) ==
    LET neg  == Head(s) = "-"
        u    == IF neg THEN Tail(s) ELSE s
        d    == IndexOf(u, ".")
        ip   == DigitsToNat(IF d = 0 THEN u ELSE SubSeq(u, 1, d - 1))
        fp   == IF d = 0 THEN "" ELSE SubSeq(u, d + 1, Len(u))
        frac == \E i \in 1..Len(fp) : Char(fp, i) # "0"
    IN  IF neg THEN IntToStr(-ip)
        ELSE IntToStr(IF frac THEN ip + 1 ELSE ip)

(***************************************************************************)
(* Python dicts: a sequence of <<key, value>> pairs in insertion order,    *)
(* keys unique.                                                            *)
(***************************************************************************)

DictKeys(d) == {d[i][1] : i \in 1..Len(d)}

DictHas(d, k) == k \in DictKeys(d)

\* d[k], for k in d.
DictAt(d, k) == d[CHOOSE i \in 1..Len(d) : d[i][1] = k][2]

\* d.get(k, default)
DictGet(d, k, default) == IF DictHas(d, k) THEN DictAt(d, k) ELSE default

\* d[k] = v: an existing key keeps its place.
DictSet(d, k, v) ==
    IF DictHas(d, k)
    THEN [i \in 1..Len(d) |-> IF d[i][1] = k THEN <<k, v>> ELSE d[i]]
    ELSE Append(d, <<k, v>>)

\* d.update(e): the keys of d keep their place and take e's values, the new
\* keys of e follow in e's order.
DictUpdate(d, e) ==
    [i \in 1..Len(d) |->
        IF DictHas(e, d[i][1]) THEN <<d[i][1], DictAt(e, d[i][1])>> ELSE d[i]]
    \o SelectSeq(e, LAMBDA p : ~DictHas(d, p[1]))

\* d1 == d2 for dicts (insertion order does not count).
DictEq(d1, d2) ==
    /\ DictKeys(d1) = DictKeys(d2)
    /\ \A k \in DictKeys(d1) : DictAt(d1, k) = DictAt(d2, k)

(***************************************************************************)
(* Config (lines 17-58)                                                    *)
(***************************************************************************)

\* Lines 18-22.
URLS ==
    << "https://www.baseball-reference.com/players/a/adamsba01.shtml",
       "https://www.baseball-reference.com/players/a/alcansa01.shtml",
       "https://www.baseball-reference.com/players/a/alexape01.shtml" >>

NumUrls == Len(URLS)

DEBUG == TRUE

PREFERRED ==
    << "W", "L", "W-L%", "ERA",
       "G", "GS", "GF", "CG", "SHO", "SV", "IP",
       "H", "R", "ER", "HR", "BB", "IBB", "SO", "HBP", "BK", "WP", "BF",
       "ERA+", "FIP", "WHIP", "H9", "HR9", "BB9", "SO9", "SO/BB" >>

COUNTING ==
    {"W", "L", "G", "GS", "GF", "CG", "SHO", "SV", "H", "R", "ER", "HR", "BB",
     "IBB", "SO", "HBP", "BF", "WP", "BK"}

SKIP_ROUND == {"IP"}

KEY_MAP ==
    << <<"w", "W">>, <<"l", "L">>, <<"wl_perc", "W-L%">>, <<"win_loss_perc", "W-L%">>,
       <<"earned_run_avg", "ERA">>,
       <<"g", "G">>, <<"gs", "GS">>, <<"gf", "GF">>, <<"cg", "CG">>, <<"sho", "SHO">>,
       <<"sv", "SV">>, <<"ip", "IP">>,
       <<"h", "H">>, <<"r", "R">>, <<"er", "ER">>, <<"hr", "HR">>, <<"bb", "BB">>,
       <<"ibb", "IBB">>, <<"so", "SO">>,
       <<"hbp", "HBP">>, <<"bk", "BK">>, <<"wp", "WP">>, <<"bf", "BF">>,
       <<"batters_faced", "BF">>,
       <<"era_plus", "ERA+">>, <<"fip", "FIP">>, <<"whip", "WHIP">>,
       <<"hits_per_nine", "H9">>, <<"home_runs_per_nine", "HR9">>,
       <<"bases_on_balls_per_nine", "BB9">>,
       <<"strikeouts_per_nine", "SO9">>, <<"strikeouts_per_base_on_balls", "SO/BB">> >>

STAT_HEADER_DROP ==
    {"season", "year_id", "age", "team_id", "tm", "lg", "lg_id", "stint", "pos",
     "pos_summary"}

SUFFIXES == {"Jr.", "Jr", "Sr.", "Sr", "II", "III", "IV", "V"}

(***************************************************************************)
(* The parsed document.                                                    *)
(*   cell    [ds, text]: a th/td, its data-stat attribute ("" when it has  *)
(*           none) and its text                                            *)
(*   row     [th, tds]: a tfoot tr, its first th (None when it has none)   *)
(*           and its td cells                                              *)
(*   table   [id, thead, tfoot]: the id attribute ("" when it has none),   *)
(*           the tr rows of its thead (<<>> when it has no thead), and its *)
(*           tfoot's rows (None when it has no tfoot)                      *)
(*   comment [has_table_tag, tables]: whether its text contains "<table",  *)
(*           and the tables its text parses to                             *)
(*   doc     [empty, h1, meta, live, comments]: whether the text is "",    *)
(*           the first h1's text, the #meta region, the tables of the live *)
(*           tree in document order, the comments in document order        *)
(***************************************************************************)

\* element.get_text(strip=True), for an element holding one text node.
get_text(text) == Strip(text)

(***************************************************************************)
(* HTTP (lines 69-76).  A response is [status, text]; status 0 stands for  *)
(* a requests.RequestException raised by session.get.                      *)
(***************************************************************************)

fetch_html_any_status(resp) == IF resp.status = 0 THEN None ELSE Some(resp.text)

fetch_html(resp) ==
    IF resp.status = 0 THEN None
    ELSE IF resp.status = 200 THEN Some(resp.text)
    ELSE None

\* "not html" in main: None and the empty text are both falsy.
NotHtml(h) == IF h = None THEN TRUE ELSE h[1].empty

(***************************************************************************)
(* Utilities (lines 79-113)                                                *)
(***************************************************************************)

nlabel_keeps_case(s) ==
    LET a == Replace(s, NBSP, " ")
        b == Replace(Replace(a, ".", ""), ZWSP, "")
    IN  Strip(CollapseWhitespace(b))

nlabel(s) ==
    LET a == Replace(s, NBSP, " ")
        b == Replace(Replace(a, ".", ""), ZWSP, "")
    IN  Lower(Strip(CollapseWhitespace(b)))

RECURSIVE CommentTables(_)
CommentTables(comments) ==
    IF comments = <<>> THEN <<>>
    ELSE (IF comments[1].has_table_tag THEN comments[1].tables ELSE <<>>)
         \o CommentTables(Tail(comments))

iter_all_tables(doc) == doc.live \o CommentTables(doc.comments)

HeaderKey(th) ==
    LET k0 == Lower(Strip(th.ds))
        k1 == IF k0 = "" THEN Lower(Strip(get_text(th.text))) ELSE k0
    IN  Replace(Replace(k1, " ", "_"), "%", "perc")

RECURSIVE HeaderKeys(_)
HeaderKeys(cells) ==
    IF cells = <<>> THEN <<>>
    ELSE LET k == HeaderKey(cells[1])
         IN  (IF k = "" \/ k \in STAT_HEADER_DROP THEN <<>> ELSE <<k>>)
             \o HeaderKeys(Tail(cells))

build_header_stat_keys(table) ==
    IF table.thead = <<>> THEN <<>>
    ELSE HeaderKeys(table.thead[Len(table.thead)])

(***************************************************************************)
(* Bio parsing (lines 116-204)                                             *)
(***************************************************************************)

get_display_name(doc) == IF doc.h1 = None THEN "" ELSE get_text(doc.h1[1])

split_first_last_with_suffix(full_name) ==
    LET parts == Split(Strip(full_name))
        n     == Len(parts)
    IN  IF n = 0 THEN <<"", "">>
        ELSE IF n = 1 THEN <<parts[1], "">>
        ELSE IF parts[n] \in SUFFIXES /\ n >= 3
             THEN <<Join(SubSeq(parts, 1, n - 2)), parts[n - 1] \o " " \o parts[n]>>
        ELSE <<Join(SubSeq(parts, 1, n - 1)), parts[n]>>

\* The #meta region is modelled by what its three sub-parsers return for it:
\* [nickname, height, weight_lb (None or Some(int)), bats, throws, hs_city,
\* hs_state, hs_country].  parse_meta_bio keeps the values that are set.
parse_meta_bio(doc) ==
    IF doc.meta = None THEN <<>>
    ELSE LET m == doc.meta[1]
             opt(k, v) == IF v # "" THEN << <<k, v>> >> ELSE <<>>
         IN  << <<"Nickname", m.nickname>> >>
             \o opt("Height", m.height)
             \o (IF m.weight_lb # None
                 THEN << <<"Weight_lb", IntToStr(m.weight_lb[1])>> >> ELSE <<>>)
             \o opt("Bats", m.bats)
             \o opt("Throws", m.throws)
             \o opt("HS_City", m.hs_city)
             \o opt("HS_State", m.hs_state)
             \o opt("HS_Country", m.hs_country)

(***************************************************************************)
(* Pitching 162 finder (lines 207-276)                                     *)
(***************************************************************************)

\* KEY_MAP.get(k, KEY_MAP.get(k.lower(), k))
Friendly(k) == DictGet(KEY_MAP, k, DictGet(KEY_MAP, Lower(k), k))

\* Line 214: the table's id, lowercased.
TableTid(tbl) == Lower(tbl.id)

\* Line 215: only tables whose id contains 'pitch' are looked at.
IsPitchTable(tbl) == Contains(TableTid(tbl), "pitch")

\* Lines 227-228: the row's normalised label.
RowLabel(tr) == nlabel(IF tr.th = None THEN "" ELSE get_text(tr.th[1]))

LabelMatches(label) == Contains(label, "162") /\ Contains(label, "avg")

\* Line 239: a value cell's data-stat key.
CellKey(td) == Replace(Lower(Strip(td.ds)), " ", "_")

\* Lines 240, 251: a value cell's text, commas removed.
CellVal(td) == Replace(get_text(td.text), ",", "")

\* Lines 237-244: the cells that carry a data-stat, keyed by friendly name.
RECURSIVE TaggedCells(_, _)
TaggedCells(cells, row_raw) ==
    IF cells = <<>> THEN row_raw
    ELSE TaggedCells(Tail(cells),
             IF CellKey(cells[1]) # ""
             THEN DictSet(row_raw, Friendly(CellKey(cells[1])), CellVal(cells[1]))
             ELSE row_raw)

\* Line 242: whether any cell carries a data-stat.
UsedDs(cells) == \E i \in 1..Len(cells) : CellKey(cells[i]) # ""

\* Lines 246-251: the i-th cell under the i-th header key, cells past the
\* header keys dropped.
RECURSIVE PositionalCells(_, _, _)
PositionalCells(cells, stat_keys, row_raw) ==
    IF cells = <<>> \/ stat_keys = <<>> THEN row_raw
    ELSE PositionalCells(Tail(cells), Tail(stat_keys),
             DictSet(row_raw, Friendly(stat_keys[1]), CellVal(cells[1])))

\* Line 254: prune empties.
RECURSIVE PruneEmpty(_)
PruneEmpty(d) ==
    IF d = <<>> THEN <<>>
    ELSE (IF d[1][1] # "" /\ d[1][2] # "" THEN <<d[1]>> ELSE <<>>) \o PruneEmpty(Tail(d))

\* The pairs of d whose key is in (keep = TRUE) or not in (keep = FALSE) ks.
RECURSIVE DictFilter(_, _, _)
DictFilter(d, ks, keep) ==
    IF d = <<>> THEN <<>>
    ELSE (IF (d[1][1] \in ks) = keep THEN <<d[1]>> ELSE <<>>)
         \o DictFilter(Tail(d), ks, keep)

RECURSIVE PreferredOf(_, _)
PreferredOf(pref, row_raw) ==
    IF pref = <<>> THEN <<>>
    ELSE (IF DictHas(row_raw, pref[1])
          THEN << <<pref[1], DictAt(row_raw, pref[1])>> >> ELSE <<>>)
         \o PreferredOf(Tail(pref), row_raw)

\* Lines 255-259: PREFERRED keys first, then the rest in discovery order.
Ordered(row_raw) ==
    PreferredOf(PREFERRED, row_raw)
    \o DictFilter(row_raw, {PREFERRED[i] : i \in 1..Len(PREFERRED)}, FALSE)

\* Lines 236-259: the mapping built for a matching footer row.
RowMapping(stat_keys, tr) ==
    LET cells   == tr.tds
        row_raw == IF UsedDs(cells) THEN TaggedCells(cells, <<>>)
                   ELSE PositionalCells(cells, stat_keys, <<>>)
    IN  Ordered(PruneEmpty(row_raw))

TableRank_all_equal(tid) == 1

\* Line 261: 0 for the standard pitching table, 1 for the others.
TableRank(tid) == IF tid = "pitching_standard" THEN 0 ELSE 1

\* Lines 226-261: the candidates of one table's footer rows, top to bottom.
RECURSIVE RowCandidates(_, _, _)
RowCandidates(rows, stat_keys, tid) ==
    IF rows = <<>> THEN <<>>
    ELSE (IF LabelMatches(RowLabel(rows[1]))
          THEN << <<TableRank(tid), RowMapping(stat_keys, rows[1])>> >>
          ELSE <<>>)
         \o RowCandidates(Tail(rows), stat_keys, tid)

\* Lines 213-261: the candidates of the tables, in iteration order.
RECURSIVE TableCandidates(_)
TableCandidates(tables) ==
    IF tables = <<>> THEN <<>>
    ELSE LET tbl == tables[1]
         IN  (IF IsPitchTable(tbl) /\ tbl.tfoot # None
              THEN RowCandidates(tbl.tfoot[1], build_header_stat_keys(tbl), TableTid(tbl))
              ELSE <<>>)
             \o TableCandidates(Tail(tables))

RECURSIVE RankOnly(_, _)
RankOnly(cands, rank) ==
    IF cands = <<>> THEN <<>>
    ELSE (IF cands[1][1] = rank THEN <<cands[1]>> ELSE <<>>) \o RankOnly(Tail(cands), rank)

SortCandidates(cands) == RankOnly(cands, 0) \o RankOnly(cands, 1)

Candidates(doc) == TableCandidates(iter_all_tables(doc))

\* The mapping of the best candidate, or None.
find_pitching_162_row(doc) ==
    IF Candidates(doc) = <<>> THEN None
    ELSE Some(SortCandidates(Candidates(doc))[1][2])

(***************************************************************************)
(* Rounding and CSV (lines 279-309).  A CSV file is [header, rows]: the    *)
(* header line's column names and one sequence of cells per record line.   *)
(***************************************************************************)

RoundValue_truncating(k, v) ==
    LET s == Strip(Replace(v, ",", ""))
    IN  IF k \in COUNTING /\ k \notin SKIP_ROUND /\ v # "" /\ NumericMatch(s)
        THEN (IF IndexOf(s, ".") = 0 THEN s ELSE SubSeq(s, 1, IndexOf(s, ".") - 1))
        ELSE v

\* Lines 281-285 and 303-308: the value written for column k holding v.
RoundValue(k, v) ==
    LET s == Strip(Replace(v, ",", ""))
    IN  IF k \in COUNTING /\ k \notin SKIP_ROUND /\ v # "" /\ NumericMatch(s)
        THEN CeilStr(s)
        ELSE v

\* ceil_counting changes d in place and returns it.
ceil_counting(d) == [i \in 1..Len(d) |-> <<d[i][1], RoundValue(d[i][1], d[i][2])>>]

write_csv(header, rows) ==
    [header |-> header,
     rows   |-> [i \in 1..Len(rows) |->
                   [j \in 1..Len(header) |-> DictGet(rows[i], header[j], "")]]]

\* csv.DictReader: each line as a dict keyed by the header's names (a line
\* shorter than the header reads as empty for the missing columns).
read_csv(file) ==
    [i \in 1..Len(file.rows) |->
        [j \in 1..Len(file.header) |->
            <<file.header[j],
              IF j <= Len(file.rows[i]) THEN file.rows[i][j] ELSE "">>]]

(***************************************************************************)
(* Main (lines 312-376)                                                    *)
(***************************************************************************)

\* Lines 358-363: the fixed bio/meta columns.
BIO_HEADER ==
    << "FirstName", "LastName", "Nickname",
       "Height", "Weight_lb", "Bats", "Throws",
       "HS_City", "HS_State", "HS_Country",
       "BaseballReferenceURL", "error" >>

\* Lines 322-327: a subject's record with its defaults.
NewRec(url) ==
    << <<"FirstName", "">>, <<"LastName", "">>, <<"Nickname", "N/A">>,
       <<"Height", "">>, <<"Weight_lb", "">>, <<"Bats", "">>, <<"Throws", "">>,
       <<"HS_City", "">>, <<"HS_State", "">>, <<"HS_Country", "">>,
       <<"BaseballReferenceURL", url>>, <<"error", "">> >>

\* Line 336: re.sub(r'[^a-z0-9]+', '_', url.lower())
RECURSIVE SafeChars(_, _)
SafeChars(s, in_run) ==
    IF s = "" THEN ""
    ELSE IF IndexOf(LowerCase \o Digits, Head(s)) > 0
         THEN Head(s) \o SafeChars(Tail(s), FALSE)
         ELSE (IF in_run THEN "" ELSE "_") \o SafeChars(Tail(s), TRUE)

SafeName(url) == SafeChars(Lower(url), FALSE) \o ".html"

RowFound_not_none(row) == row # None

\* Line 348: "if row:", false for None and for an empty mapping.
RowFound(row) == IF row = None THEN FALSE ELSE row[1] # <<>>

\* sorted(set of strings): the i-th is the one with i - 1 smaller ones.
Sorted(S) ==
    [i \in 1..Cardinality(S) |->
        CHOOSE x \in S : Cardinality({y \in S : StrLess(y, x)}) = i - 1]

\* Lines 358-368: bio columns, PREFERRED statistics seen, then the extras sorted.
BuildHeader(fields) ==
    LET bio    == {BIO_HEADER[i] : i \in 1..Len(BIO_HEADER)}
        pref   == SelectSeq(PREFERRED, LAMBDA c : c \in fields \ bio)
        header == BIO_HEADER \o pref
    IN  header \o Sorted(fields \ {header[i] : i \in 1..Len(header)})

(***************************************************************************)
(* The pages the network may answer with.                                  *)
(***************************************************************************)

Cell(ds, text) == [ds |-> ds, text |-> text]

Row(label, tds) == [th |-> Some(label), tds |-> tds]

Table(id, thead, tfoot) == [id |-> id, thead |-> thead, tfoot |-> tfoot]

Doc(h1, meta, live, comments) ==
    [empty |-> FALSE, h1 |-> h1, meta |-> meta, live |-> live, comments |-> comments]

Comment(tables) == [has_table_tag |-> TRUE, tables |-> tables]

\* A 200 response with an empty body.
EmptyDoc == [empty |-> TRUE, h1 |-> None, meta |-> None, live |-> <<>>, comments |-> <<>>]

FullMeta ==
    Some([nickname |-> "Big Papi", height |-> "6'2", weight_lb |-> Some(215),
          bats |-> "Right", throws |-> "Left",
          hs_city |-> "Austin", hs_state |-> "TX", hs_country |-> "USA"])

\* A #meta region in which only the nickname default is found.
BareMeta ==
    Some([nickname |-> "N/A", height |-> "", weight_lb |-> None,
          bats |-> "", throws |-> "",
          hs_city |-> "", hs_state |-> "", hs_country |-> ""])

\* A header row whose only non-statistic column is the row-label column.
SimpleHead ==
    << << Cell("year_id", "Year"), Cell("w", "W"), Cell("l", "L"),
          Cell("ip", "IP"), Cell("so", "SO") >> >>

\* The header rows of a standard pitching table: an over-header row, then
\* the column row, with age / team / league columns before the statistics.
StdHead ==
    << << Cell("", ""), Cell("", "Pitching") >>,
       << Cell("year_id", "Year"), Cell("age", "Age"), Cell("team_id", "Tm"),
          Cell("lg_id", "Lg"), Cell("w", "W"), Cell("l", "L"),
          Cell("ip", "IP"), Cell("so", "SO") >> >>

\* The value cells of a footer row under SimpleHead, each with its data-stat.
Cells(w, l, ip, so) == << Cell("w", w), Cell("l", l), Cell("ip", ip), Cell("so", so) >>

\* The value cells of a footer row under StdHead: the age / team / league
\* cells are there and empty.
StdCells(w, l, ip, so) ==
    << Cell("age", ""), Cell("team_id", ""), Cell("lg_id", "") >> \o Cells(w, l, ip, so)

\* The same cells without their data-stat attributes.
Untagged(cells) == [i \in 1..Len(cells) |-> Cell("", cells[i].text)]

CellsA == Cells(" 12.4 ", "8", "180.2", "204.6")

CellsB == Cells("10", "9", "150.1", "1,204.6")

CellsC == Cells("5.0", "-1.2", "60.0", "4.2")

Avg162(cells) == << Row("162 Game Avg", cells) >>

\* The footer labels tried: the spec's five, and three that only match
\* once normalised (case, no-break space, dots, zero width space).
Labels ==
    { "162 Game Avg", "Per 162 Game Average", "162-Game Avg.", "Career Totals",
      "Season Avg", "162" \o NBSP \o "Game  AVG.", "1.62 A" \o ZWSP \o "vg", "AVG per 162" }

\* One standard pitching table whose single footer row carries the label.
LabelDoc(label) ==
    Doc(Some("David Smith Jr."), FullMeta,
        << Table("pitching_standard", SimpleHead, Some(<< Row(label, CellsA) >>)) >>, <<>>)

LabelDocs == {LabelDoc(label) : label \in Labels}

\* Pages without a usable 162-game-average row.
NotFoundDocs ==
    { Doc(Some("David Smith Jr."), FullMeta, <<>>, <<>>),
      Doc(None, None, <<>>, <<>>),
      Doc(Some("Ichiro"), BareMeta,
          << Table("batting_standard", SimpleHead, Some(Avg162(CellsA))) >>, <<>>),
      Doc(Some("David Smith Jr."), FullMeta,
          << Table("pitching_standard", SimpleHead, None) >>, <<>>),
      Doc(Some("David Smith Jr."), FullMeta,
          << Table("pitching_standard", SimpleHead, Some(Avg162(Cells("", " ", "", "")))) >>,
          <<>>),
      Doc(Some("David Smith Jr."), FullMeta,
          << Table("pitching_standard", SimpleHead,
                   Some(<< [th |-> None, tds |-> CellsA] >>)) >>, <<>>),
      Doc(Some("David Smith Jr."), FullMeta,
          << Table("pitching_standard", SimpleHead, Some(Avg162(Cells("", "", "", "")))),
             Table("pitching_value", SimpleHead, Some(Avg162(CellsB))) >>, <<>>) }

\* Pages whose matching row is tagged, untagged, or under the standard header.
AlignDocs ==
    { Doc(Some("David Smith Jr."), FullMeta,
          << Table("pitching_standard", SimpleHead, Some(Avg162(Untagged(CellsA)))) >>, <<>>),
      Doc(Some("David Smith Jr."), FullMeta, <<>>,
          << Comment(<< Table("pitching_standard", StdHead,
                              Some(Avg162(StdCells("12.4", "8", "180.2", "204.6")))) >>) >>),
      Doc(Some("David Smith Jr."), FullMeta, <<>>,
          << Comment(<< Table("pitching_standard", StdHead,
                              Some(Avg162(Untagged(StdCells("12.4", "8", "180.2", "204.6"))))) >>) >>) }

\* Pages with several candidates.
RankDocs ==
    { Doc(Some("Roberto Clemente"), FullMeta,
          << Table("pitching_value", SimpleHead, Some(Avg162(CellsB))) >>,
          << Comment(<< Table("pitching_standard", SimpleHead, Some(Avg162(CellsA))) >>) >>),
      Doc(Some("Roberto Clemente"), FullMeta,
          << Table("Pitching_Value", SimpleHead, Some(Avg162(CellsB))) >>,
          << Comment(<< Table("pitching_advanced", SimpleHead, Some(Avg162(CellsC))) >>) >>),
      Doc(Some("Roberto Clemente"), FullMeta,
          << Table("pitching_standard", SimpleHead,
                   Some(<< Row("Career Totals", CellsB), Row("162 Game Avg", CellsC),
                           Row("MLB 162 Avg", CellsA) >>)) >>, <<>>),
      Doc(Some("Roberto Clemente"), FullMeta,
          << Table("Pitching_Standard", SimpleHead, Some(Avg162(CellsC))) >>,
          << Comment(<< Table("pitching_standard", SimpleHead, Some(Avg162(CellsA))) >>) >>),
      Doc(Some("Roberto Clemente"), FullMeta,
          << Table("pitching_value", SimpleHead, Some(Avg162(CellsB))) >>,
          << [has_table_tag |-> FALSE,
              tables |-> << Table("pitching_standard", SimpleHead, Some(Avg162(CellsA))) >>] >>) }

\* A page whose row carries columns KEY_MAP does not know, one of them
\* named like the record's error field.
ExtraDocs ==
    { Doc(Some("David Smith Jr."), FullMeta,
          << Table("pitching_standard", SimpleHead,
                   Some(Avg162(<< Cell("war_pitch", "2.1"), Cell("W", "12.4"),
                                  Cell("error", "3"), Cell("age", "27") >>))) >>, <<>>) }

Docs == LabelDocs \cup NotFoundDocs \cup AlignDocs \cup RankDocs \cup ExtraDocs

\* What session.get may produce: a 200 with a page or with an empty body, a
\* non-200 status (whose body is not looked at), or a RequestException (0).
Responses ==
    {[status |-> 200, text |-> d] : d \in Docs \cup {EmptyDoc}}
    \cup {[status |-> 404, text |-> LabelDoc("162 Game Avg")],
          [status |-> 0, text |-> EmptyDoc]}

\* No response: before the first fetch and between subjects.
NoResponse == [status |-> -1, text |-> EmptyDoc]

(***************************************************************************)
(* What the parsers return for each page, evaluated once per page instead  *)
(* of once per state.                                                      *)
(***************************************************************************)

\* Lines 341-344 and 347, for each page.
Parsed ==
    [d \in Docs |->
        [name |-> split_first_last_with_suffix(get_display_name(d)),
         bio  |-> parse_meta_bio(d),
         row  |-> find_pitching_162_row(d)]]

\* Line 349: ceil_counting(row), for each page with a row.
Ceiled ==
    [d \in Docs |-> IF RowFound(Parsed[d].row) THEN ceil_counting(Parsed[d].row[1]) ELSE <<>>]

\* Line 336: the debug file's name, for each URL.
SafeNames == [i \in 1..NumUrls |-> SafeName(URLS[i])]

\* Lines 340-352: the record of a fetched page.
PageRecord(url, doc) ==
    LET name == Parsed[doc].name
        rec1 == DictSet(DictSet(NewRec(url), "FirstName", name[1]), "LastName", name[2])
        rec2 == DictUpdate(rec1, Parsed[doc].bio)
    IN  IF RowFound(Parsed[doc].row)
        THEN DictUpdate(rec2, Ceiled[doc])
        ELSE DictSet(rec2, "error", "162_row_not_found")

\* The record of each page, for each URL.
Records == [i \in 1..NumUrls |-> [d \in Docs |-> PageRecord(URLS[i], d)]]

\* The statistic field names the pages can give.
StatFields == UNION {DictKeys(Ceiled[d]) : d \in Docs}

\* Lines 358-368, for each set of statistic fields the loop can have seen.
Headers == [fields \in SUBSET StatFields |-> BuildHeader(fields)]

(***************************************************************************)
(* Raw files round_counting_columns_in_csv may be handed, other than the   *)
(* ones main writes.                                                       *)
(***************************************************************************)

\* The values tried in the counting columns of a raw file.
CountValues == {"4.2", "5.0", "-1.2", "12", "", "abc", "-0.5", "0.0"}

RawHeader == BuildHeader({"W", "SO", "IP", "ERA", "war_pitch"})

\* A raw file of two records: a failed subject, and a subject with statistics.
RawFiles ==
    {write_csv(RawHeader,
        << DictSet(NewRec(URLS[1]), "error", "fetch_failed"),
           DictUpdate(NewRec(URLS[2]),
               << <<"FirstName", "David">>, <<"LastName", "Smith Jr.">>,
                  <<"Height", "6'2">>, <<"Weight_lb", "215">>,
                  <<"W", w>>, <<"ERA", "3.45">>, <<"IP", ip>>, <<"SO", so>>,
                  <<"war_pitch", "2.1">> >>) >>)
       : w \in CountValues, so \in CountValues, ip \in {"180.2", "60.0"}}

\* The values a counting column of a raw file can hold.
CountingValues ==
    CountValues \cup UNION {{Ceiled[d][j][2] : j \in 1..Len(Ceiled[d])} : d \in Docs}

\* Lines 303-308, for each counting column and each value it can hold.
Rounded == [k \in COUNTING, v \in CountingValues |-> RoundValue(k, v)]

\* Lines 300-308: the counting columns of every row, rounded up.
RoundRow(r) ==
    [j \in 1..Len(r) |->
        <<r[j][1],
          IF r[j][1] \in COUNTING /\ r[j][2] \in CountingValues
          THEN Rounded[r[j][1], r[j][2]]
          ELSE RoundValue(r[j][1], r[j][2])>>]

\* Lines 296-309: the rows are read into a list, rounded, and written.
round_counting_columns_in_csv(input) ==
    LET reader == read_csv(input)
    IN  CHOOSE out \in {write_csv(input.header, rows) :
                           rows \in {[i \in 1..Len(reader) |-> RoundRow(reader[i])]}} : TRUE

VARIABLES
    pc,           \* where main is: "fetch", "fetched", "sleep", "header", "write_raw",
                  \* "round", "done"
    idx,          \* the position in URLS of the subject being processed
    resp,         \* the response session.get produced for it
    html,         \* what fetch_html returned for it: None or Some(doc)
    out_rows,     \* the records so far
    all_fields,   \* the statistic field names seen so far
    debug_html,   \* the files saved under br_debug_html/
    header,       \* the CSV header main builds after the loop: <<>> until built
    raw_csv,      \* pitchers_162_raw.csv: None until written
    rounded_csv,  \* pitchers_162_rounded.csv: None until written
    fetches,      \* how many times fetch_html was called
    sleeps,       \* how many times time.sleep was called
    hist          \* per subject: the response's status, whether its body was empty,
                  \* and what the locator returned (None when it was not called)

vars ==
    <<pc, idx, resp, html, out_rows, all_fields, debug_html, header, raw_csv,
      rounded_csv, fetches, sleeps, hist>>

\* Lines 313-316.
Init ==
    /\ pc = IF NumUrls = 0 THEN "header" ELSE "fetch"
    /\ idx = 1
    /\ resp = NoResponse
    /\ html = None
    /\ out_rows = <<>>
    /\ all_fields = {}
    /\ debug_html = {}
    /\ header = <<>>
    /\ raw_csv = None
    /\ rounded_csv = None
    /\ fetches = 0
    /\ sleeps = 0
    /\ hist = <<>>

\* Line 320: html = fetch_html(url).
Fetch ==
    /\ pc = "fetch"
    /\ idx <= NumUrls
    /\ \E r \in Responses :
         /\ resp' = r
         /\ html' = fetch_html(r)
    /\ fetches' = fetches + 1
    /\ pc' = "fetched"
    /\ UNCHANGED <<idx, out_rows, all_fields, debug_html, header, raw_csv, rounded_csv, sleeps, hist>>

FetchFailed_no_sleep ==
    /\ pc = "fetched"
    /\ NotHtml(html)
    /\ out_rows' = Append(out_rows, DictSet(NewRec(URLS[idx]), "error", "fetch_failed"))
    /\ hist' = Append(hist, [status |-> resp.status, empty |-> resp.text.empty, row |-> None])
    /\ idx' = idx + 1
    /\ pc' = IF idx = NumUrls THEN "header" ELSE "fetch"
    /\ resp' = NoResponse
    /\ html' = None
    /\ UNCHANGED <<all_fields, debug_html, header, raw_csv, rounded_csv, fetches, sleeps>>

FetchFailed_aborts ==
    /\ pc = "fetched"
    /\ NotHtml(html)
    /\ pc' = "done"
    /\ UNCHANGED <<idx, resp, html, out_rows, all_fields, debug_html, header, raw_csv,
                   rounded_csv, fetches, sleeps, hist>>

\* Lines 329-332: no page, the record says so; the delay follows.
FetchFailed ==
    /\ pc = "fetched"
    /\ NotHtml(html)
    /\ out_rows' = Append(out_rows, DictSet(NewRec(URLS[idx]), "error", "fetch_failed"))
    /\ hist' = Append(hist, [status |-> resp.status, empty |-> resp.text.empty, row |-> None])
    /\ pc' = "sleep"
    /\ UNCHANGED <<idx, resp, html, all_fields, debug_html, header, raw_csv, rounded_csv,
                   fetches, sleeps>>

\* Lines 334-354: the page is saved, its bio fields and its 162 row go into
\* the record; the delay follows.
ProcessPage ==
    /\ pc = "fetched"
    /\ ~NotHtml(html)
    /\ LET doc == html[1]
           row == Parsed[doc].row
       IN  /\ debug_html' = IF DEBUG THEN debug_html \cup {SafeNames[idx]}
                            ELSE debug_html
           /\ out_rows' = Append(out_rows, Records[idx][doc])
           /\ all_fields' = IF RowFound(row) THEN all_fields \cup DictKeys(row[1])
                            ELSE all_fields
           /\ hist' = Append(hist, [status |-> resp.status, empty |-> resp.text.empty, row |-> row])
    /\ pc' = "sleep"
    /\ UNCHANGED <<idx, resp, html, header, raw_csv, rounded_csv, fetches, sleeps>>

\* Lines 332, 355: time.sleep(random.uniform(*DELAY)), then the next URL.
Sleep ==
    /\ pc = "sleep"
    /\ sleeps' = sleeps + 1
    /\ idx' = idx + 1
    /\ pc' = IF idx = NumUrls THEN "header" ELSE "fetch"
    /\ resp' = NoResponse
    /\ html' = None
    /\ UNCHANGED <<out_rows, all_fields, debug_html, header, raw_csv, rounded_csv, fetches, hist>>

\* Lines 357-368: the header is built.
MakeHeader ==
    /\ pc = "header"
    /\ header' = Headers[all_fields]
    /\ pc' = "write_raw"
    /\ UNCHANGED <<idx, resp, html, out_rows, all_fields, debug_html, raw_csv, rounded_csv,
                   fetches, sleeps, hist>>

\* Lines 370-371: the raw file is written.
WriteRaw ==
    /\ pc = "write_raw"
    /\ raw_csv' = Some(write_csv(header, out_rows))
    /\ pc' = "round"
    /\ UNCHANGED <<idx, resp, html, out_rows, all_fields, debug_html, header, rounded_csv,
                   fetches, sleeps, hist>>

\* Lines 374-375: the rounded file is derived from the raw file.
RoundCsv ==
    /\ pc = "round"
    /\ raw_csv # None
    /\ rounded_csv' = Some(round_counting_columns_in_csv(raw_csv[1]))
    /\ pc' = "done"
    /\ UNCHANGED <<idx, resp, html, out_rows, all_fields, debug_html, header, raw_csv,
                   fetches, sleeps, hist>>

Next == Fetch \/ FetchFailed \/ ProcessPage \/ Sleep \/ MakeHeader \/ WriteRaw \/ RoundCsv

Spec == Init /\ [][Next]_vars

\* main runs to its end: every statement it reaches is executed.
FairSpec == Spec /\ WF_vars(Next)

(***************************************************************************)
(* round_counting_columns_in_csv on its own: any raw file it may be handed.*)
(***************************************************************************)

InitRound ==
    /\ pc = "round"
    /\ idx = NumUrls + 1
    /\ resp = NoResponse
    /\ html = None
    /\ out_rows = <<>>
    /\ all_fields = {}
    /\ debug_html = {}
    /\ header = RawHeader
    /\ raw_csv \in {Some(f) : f \in RawFiles}
    /\ rounded_csv = None
    /\ fetches = 0
    /\ sleeps = 0
    /\ hist = <<>>

NextRound == RoundCsv

SpecRound == InitRound /\ [][NextRound]_vars

(***************************************************************************)
(* Properties                                                              *)
(***************************************************************************)

BioFields == {BIO_HEADER[i] : i \in 1..Len(BIO_HEADER)}

\* The cell of record line i under column k of a CSV file.
CsvCell(file, i, k) == file.rows[i][CHOOSE j \in 1..Len(file.header) : file.header[j] = k]

\* The record main starts every subject with, for the i-th URL.
DefaultRecord(i, error) ==
    << <<"FirstName", "">>, <<"LastName", "">>, <<"Nickname", "N/A">>,
       <<"Height", "">>, <<"Weight_lb", "">>, <<"Bats", "">>, <<"Throws", "">>,
       <<"HS_City", "">>, <<"HS_State", "">>, <<"HS_Country", "">>,
       <<"BaseballReferenceURL", URLS[i]>>, <<"error", error>> >>

\* A subject whose response was not a 200, or whose request raised.
Failed(i) == hist[i].status # 200

\* A subject whose 200 response had a body.
Fetched(i) == hist[i].status = 200 /\ ~hist[i].empty

\* C1: for every subject whose career-average row is found, the raw file
\* holds the values as extracted from the page, unrounded.
C1_RawFileKeepsExtractedValues ==
    raw_csv # None =>
        \A i \in 1..Len(hist) :
            RowFound(hist[i].row) =>
                \A k \in DictKeys(hist[i].row[1]) :
                    CsvCell(raw_csv[1], i, k) = DictAt(hist[i].row[1], k)

\* The page being processed is the one-table page with this footer label.
AtLabel(label) == pc = "sleep" /\ html = Some(LabelDoc(label))

\* The locator returned a mapping for the subject just processed.
Accepted == hist[Len(hist)].row # None

\* C2 as stated: "162 Game Avg", "Per 162 Game Average" and "162-Game Avg."
\* are accepted as the career-average row, "Career Totals" and "Season Avg"
\* are not.
C2_SpecLabelsAsListed ==
    /\ \A l \in {"162 Game Avg", "Per 162 Game Average", "162-Game Avg."} :
           AtLabel(l) => Accepted
    /\ \A l \in {"Career Totals", "Season Avg"} : AtLabel(l) => ~Accepted

\* C2 amended: "162 Game Avg" and "162-Game Avg." are accepted, and so are
\* labels that contain "162" and "avg" only once normalised; "Per 162 Game
\* Average" ("average" does not contain "avg"), "Career Totals" and
\* "Season Avg" are not.
C2_LabelsAccepted ==
    /\ \A l \in {"162 Game Avg", "162-Game Avg.", "AVG per 162",
                 "162" \o NBSP \o "Game  AVG.", "1.62 A" \o ZWSP \o "vg"} :
           AtLabel(l) => Accepted /\ DictAt(out_rows[Len(out_rows)], "error") = ""
    /\ \A l \in {"Per 162 Game Average", "Career Totals", "Season Avg"} :
           AtLabel(l) =>
               ~Accepted /\ DictAt(out_rows[Len(out_rows)], "error") = "162_row_not_found"

C2_Witness == AtLabel("162-Game Avg.") /\ Accepted

\* The tables of a page that the locator looks into.
Retained(doc) ==
    SelectSeq(iter_all_tables(doc), LAMBDA t : IsPitchTable(t) /\ t.tfoot # None)

\* The matching footer rows of a page, as <<table, row>> positions in
\* Retained(doc).
MatchingRows(doc) ==
    {<<t, r>> \in (1..Len(Retained(doc))) \X (1..4) :
        /\ r <= Len(Retained(doc)[t].tfoot[1])
        /\ LabelMatches(RowLabel(Retained(doc)[t].tfoot[1][r]))}

\* p comes before q in iteration order.
Before(p, q) == p[1] < q[1] \/ (p[1] = q[1] /\ p[2] < q[2])

\* The first of the rows in S.
FirstOf(S) == CHOOSE p \in S : \A q \in S \ {p} : Before(p, q)

MappingAt(doc, p) ==
    RowMapping(build_header_stat_keys(Retained(doc)[p[1]]),
               Retained(doc)[p[1]].tfoot[1][p[2]])

\* Whether, on a page, every matching footer row whose cells all carry
\* data-stat tags gives the same mapping with the tags removed.
PositionalAgrees ==
    [d \in Docs |->
        \A p \in MatchingRows(d) :
            LET tbl == Retained(d)[p[1]]
                tr  == tbl.tfoot[1][p[2]]
            IN  (\A c \in 1..Len(tr.tds) : tr.tds[c].ds # "")
                    => DictEq(RowMapping(build_header_stat_keys(tbl), tr),
                              RowMapping(build_header_stat_keys(tbl),
                                         [tr EXCEPT !.tds = Untagged(tr.tds)]))]

\* C3: for every matching footer row whose cells carry data-stat tags, the
\* mapping built by position from the same cells without their tags is the
\* mapping built from the tags.
C3_PositionalEqualsTagged ==
    (pc = "sleep" /\ ~NotHtml(html)) => PositionalAgrees[html[1]]

\* Line i of a CSV file is a full line of the failed subject i: one cell per
\* column, its bio/meta cells the defaults, its statistic cells empty.
FailedLine(file, i) ==
    /\ Len(file.rows[i]) = Len(file.header)
    /\ \A j \in 1..Len(file.header) :
           file.rows[i][j] =
               IF file.header[j] \in BioFields
               THEN DictAt(DefaultRecord(i, "fetch_failed"), file.header[j])
               ELSE ""

\* C4: a subject whose fetch fails (non-200 status or transport error) has
\* exactly one record, the defaults with error = "fetch_failed" and no
\* statistic field, and that record is one full line of each CSV file, its
\* statistic columns empty.
C4_FetchFailedRecord ==
    /\ Len(out_rows) = Len(hist)
    /\ Len(out_rows) = (IF pc \in {"fetch", "fetched"} THEN idx - 1
                        ELSE IF pc = "sleep" THEN idx ELSE NumUrls)
    /\ \A i \in 1..Len(hist) :
           Failed(i) =>
               /\ out_rows[i] = DefaultRecord(i, "fetch_failed")
               /\ raw_csv # None =>
                      Len(raw_csv[1].rows) = NumUrls /\ FailedLine(raw_csv[1], i)
               /\ rounded_csv # None =>
                      Len(rounded_csv[1].rows) = NumUrls /\ FailedLine(rounded_csv[1], i)

C4_Witness ==
    /\ pc = "done"
    /\ hist[1].status = 404
    /\ hist[2].status = 0
    /\ Len(rounded_csv[1].header) > Len(BIO_HEADER)

\* C5: every fetch, failed or not, is followed by exactly one delay before
\* the next fetch starts.
C5_OneDelayAfterEveryFetch ==
    /\ pc = "fetch" => sleeps = fetches
    /\ pc \in {"fetched", "sleep"} => fetches = sleeps + 1
    /\ pc \in {"header", "write_raw", "round", "done"} => sleeps = fetches

C5_Witness ==
    /\ pc = "fetch"
    /\ fetches = 2
    /\ sleeps = 2
    /\ Failed(1)
    /\ Fetched(2)

\* The run is over: one record per URL in list order, each URL fetched once,
\* and both files written.
RunComplete ==
    /\ pc = "done"
    /\ fetches = NumUrls
    /\ Len(out_rows) = NumUrls
    /\ \A i \in 1..NumUrls : DictAt(out_rows[i], "BaseballReferenceURL") = URLS[i]
    /\ raw_csv # None
    /\ rounded_csv # None
    /\ Len(raw_csv[1].rows) = NumUrls
    /\ Len(rounded_csv[1].rows) = NumUrls

\* C6: whatever the subjects' outcomes, the run reaches its end, having
\* processed each URL once in list order, with one record per URL; the raw
\* file is written once the loop is over, the rounded file after it.
C6_RunCompletes ==
    /\ <>[]RunComplete
    /\ [](raw_csv # None => Len(out_rows) = NumUrls /\ fetches = NumUrls)
    /\ [](rounded_csv # None => raw_csv # None)
    /\ [](\A i \in 1..Len(out_rows) :
              DictAt(out_rows[i], "BaseballReferenceURL") = URLS[i])

C6_Witness == pc = "done" /\ \A i \in 1..NumUrls : Failed(i)

\* The locator returned None or an empty mapping for subject i.
NoUsableRow(i) == hist[i].row \in {None, Some(<<>>)}

\* C7 as stated: a fetched page (a 200 response) without a usable row gives
\* a record with error = "162_row_not_found".
C7_FetchedWithoutRow ==
    \A i \in 1..Len(hist) :
        (hist[i].status = 200 /\ NoUsableRow(i))
            => DictAt(out_rows[i], "error") = "162_row_not_found"

\* C7 amended: a page fetched with a non-empty body that has no pitching
\* table, no tfoot, no matching label, or only an empty mapping, gives a
\* record with error = "162_row_not_found", no statistic field and the bio
\* fields of the page, and the run goes on to the next subject; a 200
\* response with an empty body is a failed fetch.
C7_RowNotFound ==
    /\ \A i \in 1..Len(hist) :
           /\ (Fetched(i) /\ NoUsableRow(i)) =>
                  /\ DictAt(out_rows[i], "error") = "162_row_not_found"
                  /\ DictKeys(out_rows[i]) = BioFields
           /\ (hist[i].status = 200 /\ hist[i].empty) =>
                  out_rows[i] = DefaultRecord(i, "fetch_failed")
    /\ (pc = "sleep" /\ Fetched(Len(hist)) /\ NoUsableRow(Len(hist))) =>
           LET rec == out_rows[Len(out_rows)]
               doc == html[1]
           IN  /\ doc.h1 = Some("David Smith Jr.") =>
                      DictAt(rec, "FirstName") = "David" /\ DictAt(rec, "LastName") = "Smith Jr."
               /\ doc.h1 = Some("Ichiro") =>
                      DictAt(rec, "FirstName") = "Ichiro" /\ DictAt(rec, "LastName") = ""
               /\ doc.meta = FullMeta =>
                      /\ DictAt(rec, "Nickname") = "Big Papi"
                      /\ DictAt(rec, "Height") = "6'2"
                      /\ DictAt(rec, "Weight_lb") = "215"
                      /\ DictAt(rec, "Bats") = "Right"
                      /\ DictAt(rec, "Throws") = "Left"
                      /\ DictAt(rec, "HS_City") = "Austin"
                      /\ DictAt(rec, "HS_State") = "TX"
                      /\ DictAt(rec, "HS_Country") = "USA"
               /\ doc.meta = None => DictAt(rec, "Nickname") = "N/A"
    /\ pc \in {"header", "write_raw", "round", "done"} => Len(hist) = NumUrls

C7_Witness ==
    /\ pc = "done"
    /\ Fetched(1)
    /\ hist[1].row = Some(<<>>)
    /\ Fetched(2)
    /\ hist[2].row = None
    /\ DictAt(out_rows[2], "FirstName") = "Ichiro"
    /\ RowFound(hist[NumUrls].row)

\* What the rounded file holds for a value of a counting column.
ExpectedCeiling(v) ==
    CASE v = "4.2"  -> "5"
      [] v = "5.0"  -> "5"
      [] v = "-1.2" -> "-1"
      [] v = "12"   -> "12"
      [] v = "-0.5" -> "0"
      [] v = "0.0"  -> "0"
      [] OTHER      -> v

\* C8: the rounded file has the raw file's header and number of rows; a
\* numeric value of a counting column is replaced by its ceiling, and every
\* other cell is the raw file's cell.
C8_RoundedFile ==
    rounded_csv # None =>
        LET raw == raw_csv[1]
            rnd == rounded_csv[1]
        IN  /\ rnd.header = raw.header
            /\ Len(rnd.rows) = Len(raw.rows)
            /\ \A i \in 1..Len(raw.rows) :
                   /\ Len(rnd.rows[i]) = Len(raw.header)
                   /\ \A j \in 1..Len(raw.header) :
                          rnd.rows[i][j] =
                              IF raw.header[j] \in COUNTING \ SKIP_ROUND
                              THEN ExpectedCeiling(raw.rows[i][j])
                              ELSE raw.rows[i][j]

C8_Witness ==
    /\ rounded_csv # None
    /\ CsvCell(raw_csv[1], 2, "W") = "4.2"
    /\ CsvCell(rounded_csv[1], 2, "W") = "5"
    /\ CsvCell(raw_csv[1], 2, "SO") = "-1.2"
    /\ CsvCell(rounded_csv[1], 2, "SO") = "-1"
    /\ CsvCell(raw_csv[1], 2, "IP") = "180.2"
    /\ CsvCell(rounded_csv[1], 2, "IP") = "180.2"

\* The first matching row of each page among the tables whose id is exactly
\* "pitching_standard", where there is one.
ExactStandardFirst ==
    [d \in Docs |->
        LET exact == {p \in MatchingRows(d) : Retained(d)[p[1]].id = "pitching_standard"}
        IN  IF exact # {} THEN Some(MappingAt(d, FirstOf(exact))) ELSE None]

\* C9 as stated: the first matching row of a table whose id is exactly
\* "pitching_standard" is returned ahead of the rows of every other table.
C9_ExactStandardIdFirst ==
    (pc = "sleep" /\ ~NotHtml(html) /\ ExactStandardFirst[html[1]] # None) =>
        hist[Len(hist)].row = ExactStandardFirst[html[1]]

\* The first matching row of each page among the tables whose lowercased id
\* is "pitching_standard", else the first matching row, else None.
TopRanked ==
    [d \in Docs |->
        LET std == {p \in MatchingRows(d) : Lower(Retained(d)[p[1]].id) = "pitching_standard"}
        IN  IF std # {} THEN Some(MappingAt(d, FirstOf(std)))
            ELSE IF MatchingRows(d) # {} THEN Some(MappingAt(d, FirstOf(MatchingRows(d))))
            ELSE None]

\* C9 amended: the first matching row of a table whose lowercased id is
\* "pitching_standard" is returned ahead of the rows of every other table;
\* without such a row the first matching row is returned; None is returned
\* only when no row matches.
C9_TopRankedFirst ==
    (pc = "sleep" /\ ~NotHtml(html)) => hist[Len(hist)].row = TopRanked[html[1]]

C9_Witness ==
    /\ pc = "sleep"
    /\ ~NotHtml(html)
    /\ Len(html[1].live) = 1
    /\ html[1].live[1].id = "pitching_value"
    /\ Len(html[1].comments) = 1
    /\ html[1].comments[1].has_table_tag
    /\ hist[Len(hist)].row = Some(<< <<"W", "12.4">>, <<"L", "8">>, <<"IP", "180.2">>,
                                     <<"SO", "204.6">> >>)

\* C10: every record has the twelve fixed fields, its error field is "",
\* "fetch_failed" or "162_row_not_found", it has statistic fields only when
\* the locator returned a non-empty mapping (and then error = ""), and the
\* statistics never replace a fixed field.
C10_RecordInvariant ==
    \A i \in 1..Len(out_rows) :
        LET rec == out_rows[i]
        IN  /\ BioFields \subseteq DictKeys(rec)
            /\ DictAt(rec, "error") \in {"", "fetch_failed", "162_row_not_found"}
            /\ DictKeys(rec) # BioFields =>
                   RowFound(hist[i].row) /\ DictAt(rec, "error") = ""
            /\ DictAt(rec, "BaseballReferenceURL") = URLS[i]
====
